---- MODULE Spec2Model ----
(***************************************************************************)
(* Model of the console Tic-Tac-Toe game of src/main.rs: the Grid (a 3x3   *)
(* character matrix), the Game session (grid + count) with its start /     *)
(* step / check_end / clean_up operations, and the input pipeline          *)
(* prompt -> prompt_usize -> read_placement -> valid_plot.                 *)
(*                                                                         *)
(* Characters are one-character strings; the character U+00B2 (superscript *)
(* two, which char::is_numeric accepts and usize::from_str rejects) is     *)
(* written "U+00B2".  Result values are tuples <<"Ok", v>> / <<"Err", e>>, *)
(* GameStates values are <<"Win", c>>, <<"Tie">>, <<"StillPlaying">>.      *)
(***************************************************************************)
EXTENDS Integers, Sequences, FiniteSets, TLC

VARIABLES
    grid,     \* Game.grid.grid : [[char; 3]; 3], indexed 0..2 x 0..2
    count,    \* Game.count : u32
    pc,       \* where the program is: "new", "loop", "cleanup", "returned",
              \* "panicked" (session) or "unit" / "unit_done" (a single call)
    ret,      \* <<b>>, b what the last step() returned; <<>> before any step
    input,    \* <<raw>>, raw the line the last step() read; <<>> before any
    out,      \* what the last operation wrote to stdout, in order, and the
              \* message of its panic at the end when it panicked
    plotted,  \* the last call of Grid::plot in this round: <<num, c, old>>
    call,     \* unit specifications: the call made, <<name, args...>>
    res       \* unit specifications: what the call returned

vars == <<grid, count, pc, ret, input, out, plotted, call, res>>

(***************************************************************************)
(* Bounds of the model.                                                    *)
(***************************************************************************)
\* the session's numeric inputs are the decimal lines of 0..MaxNum
MaxNum == 10
\* get_winner is called with turns in 0..MaxTurnsArg in SpecGetWinner
MaxTurnsArg == 9
\* valid_plot / plot are called with positions up to MaxPlotArg in the unit
\* specifications
MaxPlotArg == 10

(***************************************************************************)
(* Constants and small functions of mod tic_tac_toe.                       *)
(***************************************************************************)
\* a cap one too small
MAX_TURNS_seven == 8 - 1

\* pub const MAX_TURNS: u32 = 8
MAX_TURNS == 8

EMPTY == "_"

Cells == {EMPTY, "X", "O"}

Idx == 0..2

\* the value of an expression whose evaluation panics
Panic == "panic!"

Ok(v) == <<"Ok", v>>

Err(e) == <<"Err", e>>

\* turn with the parity test inverted
turn_inverted(c) == IF c % 2 = 1 THEN "X" ELSE "O"

\* const fn turn(count): count & 1 == 0
turn(c) == IF c % 2 = 0 THEN "X" ELSE "O"

\* grid_mapping_to_indexes with row and column exchanged
grid_mapping_to_indexes_transposed(mapping) ==
    IF mapping = 0
    THEN <<1431655765, 0>>
    ELSE LET m == mapping - 1 IN <<m % 3, m \div 3>>

\* const fn grid_mapping_to_indexes(mapping).  mapping - 1 underflows for
\* mapping = 0: a debug build panics at the subtraction, a release build
\* wraps to usize::MAX, which is 3 * 1431655765 on a 32-bit target (and
\* 3 * 6148914691236517205 on a 64-bit one): a row far out of the matrix,
\* so that every build panics at the index.
grid_mapping_to_indexes(mapping) ==
    IF mapping = 0
    THEN <<1431655765, 0>>
    ELSE LET m == mapping - 1 IN <<m \div 3, m % 3>>

\* Grid::new(gen): Option<fn(usize) -> char>; gen is <<>> for None and
\* <<gf>> for Some(gf), gf a function on 0..8
Grid_new(gen) ==
    IF gen = <<>>
    THEN [r \in Idx |-> [c \in Idx |-> EMPTY]]
    ELSE [r \in Idx |-> [c \in Idx |-> gen[1][3 * r + c]]]

\* the closure of tutorial(): |i| char::from_digit((i + 1) as u32, 10).unwrap()
DigitChars == <<"0", "1", "2", "3", "4", "5", "6", "7", "8", "9">>

gen_fn == [i \in 0..8 |-> DigitChars[i + 2]]

\* Grid::at_indexes(x, y): self.grid[x][y], an out-of-bounds index panics
at_indexes(g, x, y) ==
    IF x \in Idx /\ y \in Idx THEN g[x][y] ELSE Panic

\* Grid::at(plotting)
at(g, plotting) ==
    LET mapped == grid_mapping_to_indexes(plotting)
    IN  at_indexes(g, mapped[1], mapped[2])

\* plot_at_indexes returning the character written, not the old one
plot_at_indexes_returns_new(g, x, y, c) ==
    IF x \in Idx /\ y \in Idx
    THEN <<[g EXCEPT ![x][y] = c], c>>
    ELSE <<g, Panic>>

\* Grid::plot_at_indexes(x, y, c): <<the grid afterwards, the old character>>
plot_at_indexes(g, x, y, c) ==
    IF x \in Idx /\ y \in Idx
    THEN <<[g EXCEPT ![x][y] = c], g[x][y]>>
    ELSE <<g, Panic>>

\* Grid::plot(plotting, c)
plot(g, plotting, c) ==
    LET mapped == grid_mapping_to_indexes(plotting)
    IN  plot_at_indexes(g, mapped[1], mapped[2], c)

OutOfRangeMsg == "That number is not one of the valid cell numbers."

SlotFullMsg == "The slot is full!"

NotANumberMsg == "That is not a number."

\* valid_plot without the test of the slot
valid_plot_ignores_full(g, num) ==
    IF num \in 1..9 THEN Ok(num) ELSE Err(OutOfRangeMsg)

\* valid_plot reading the slot before it tests the range
valid_plot_reads_first(g, num) ==
    IF at(g, num) # EMPTY THEN Err(SlotFullMsg)
    ELSE IF num \in 1..9 THEN Ok(num)
    ELSE Err(OutOfRangeMsg)

\* Grid::valid_plot(num)
valid_plot(g, num) ==
    IF num \in 1..9
    THEN IF at(g, num) = EMPTY THEN Ok(num) ELSE Err(SlotFullMsg)
    ELSE Err(OutOfRangeMsg)

Win(c) == <<"Win", c>>

Tie == <<"Tie">>

StillPlaying == <<"StillPlaying">>

\* the loop of get_winner without the test of the rows
RECURSIVE Straights_columns_only(_, _)
Straights_columns_only(g, i) ==
    IF i = 3 THEN <<>>
    ELSE IF g[0][i] = g[1][i] /\ g[1][i] = g[2][i] /\ g[1][i] # EMPTY
         THEN Win(g[1][i])
    ELSE Straights_columns_only(g, i + 1)

\* the body of the loop "for i in 0..3" of get_winner, from iteration i on:
\* <<>> when the loop ends without returning
RECURSIVE Straights(_, _)
Straights(g, i) ==
    IF i = 3 THEN <<>>
    ELSE IF g[i][0] = g[i][1] /\ g[i][1] = g[i][2] /\ g[i][1] # EMPTY
         THEN Win(g[i][1])
    ELSE IF g[0][i] = g[1][i] /\ g[1][i] = g[2][i] /\ g[1][i] # EMPTY
         THEN Win(g[1][i])
    ELSE Straights(g, i + 1)

\* the diagonals without the test of the centre cell
Diagonals_unguarded(g) ==
    IF g[0][0] = g[1][1] /\ g[1][1] = g[2][2] THEN Win(g[1][1])
    ELSE IF g[2][0] = g[1][1] /\ g[1][1] = g[0][2] THEN Win(g[1][1])
    ELSE <<>>

\* the diagonals of get_winner: <<>> when neither returns
Diagonals(g) ==
    IF g[1][1] # EMPTY
    THEN IF g[0][0] = g[1][1] /\ g[1][1] = g[2][2] THEN Win(g[1][1])
         ELSE IF g[2][0] = g[1][1] /\ g[1][1] = g[0][2] THEN Win(g[1][1])
         ELSE <<>>
    ELSE <<>>

\* the last test of get_winner off by one: turns <= MAX_TURNS
get_winner_from_off_by_one(s, d, turns) ==
    IF s # <<>> THEN s
    ELSE IF d # <<>> THEN d
    ELSE IF turns <= 8 THEN StillPlaying
    ELSE Tie

\* get_winner testing the number of turns before the lines
get_winner_from_tie_first(s, d, turns) ==
    IF turns >= 8 THEN Tie
    ELSE IF s # <<>> THEN s
    ELSE IF d # <<>> THEN d
    ELSE StillPlaying

\* Grid::get_winner(turns) after the loop gave s and the diagonals gave d
get_winner_from(s, d, turns) ==
    IF s # <<>> THEN s
    ELSE IF d # <<>> THEN d
    ELSE IF turns < MAX_TURNS THEN StillPlaying
    ELSE Tie

\* Grid::get_winner(turns)
get_winner(g, turns) == get_winner_from(Straights(g, 0), Diagonals(g), turns)

\* GameStates::win_msg
win_msg(s) ==
    IF s = StillPlaying THEN Panic
    ELSE IF s = Tie THEN "The game is a tie!"
    ELSE s[2] \o " wins!"

\* what is written to stdout: a line of text, or Grid::print of a grid
Text(s) == <<"text", s>>

Printed(g) == <<"grid", g>>

\* the message of a panic, which ends the process
Panicked(msg) == <<"panic", msg>>

\* panic!(..) of GameStates::win_msg
WinMsgPanic == "active game is not fit for a win message"

\* .expect(..) of inputs::prompt
ReadPanic == "You did not enter a valid string"

\* an index outside the matrix in at_indexes / plot_at_indexes
IndexPanic == "index out of bounds"

\* increment_count that leaves the counter alone
increment_count_stuck(c) == c

\* Game::increment_count: min(MAX_TURNS, count + 1)
increment_count(c) == IF c + 1 < MAX_TURNS THEN c + 1 ELSE MAX_TURNS

(***************************************************************************)
(* mod inputs.  A line of stdin is a sequence of characters, terminator    *)
(* included; BadByte stands for a byte sequence that is not valid UTF-8.   *)
(***************************************************************************)
BadByte == "\\xFF"

\* stdin().read_line(&mut s): Err when the bytes read are not valid UTF-8
read_line(raw) ==
    IF \E i \in 1..Len(raw) : raw[i] = BadByte THEN Err("InvalidData") ELSE Ok(raw)

\* s.pop() when the last character is ch
pop_if(s, ch) ==
    IF s # <<>> /\ s[Len(s)] = ch THEN SubSeq(s, 1, Len(s) - 1) ELSE s

\* inputs::prompt(maybe_text): the String returned, or Panic when
\* read_line(..).expect(..) fails
prompt(raw) ==
    LET r == read_line(raw)
    IN  IF r[1] = "Err" THEN Panic ELSE pop_if(pop_if(r[2], "\n"), "\r")

\* char::is_numeric: the Unicode categories Nd, Nl, No
is_numeric(c) == (\E i \in 1..10 : DigitChars[i] = c) \/ c = "U+00B2"

\* .chars().filter(|&c| char::is_numeric(c)).collect()
RECURSIVE filter_numeric(_)
filter_numeric(s) ==
    IF s = <<>> THEN <<>>
    ELSE IF is_numeric(Head(s)) THEN <<Head(s)>> \o filter_numeric(Tail(s))
    ELSE filter_numeric(Tail(s))

DigitVal(c) == (CHOOSE i \in 1..10 : DigitChars[i] = c) - 1

IsAsciiDigit(c) == \E i \in 1..10 : DigitChars[i] = c

RECURSIVE DecValue(_)
DecValue(s) ==
    IF s = <<>> THEN 0
    ELSE 10 * DecValue(SubSeq(s, 1, Len(s) - 1)) + DigitVal(s[Len(s)])

\* usize::from_str: an optional "+", then one or more ASCII digits.  The
\* lines of the model have at most four digits, so that the value never
\* exceeds usize::MAX (which from_str answers with Err as well).
from_str(s) ==
    LET digits == IF s # <<>> /\ s[1] = "+" THEN Tail(s) ELSE s
    IN  IF s = <<>> THEN Err("Empty")
        ELSE IF digits = <<>> \/ \E i \in 1..Len(digits) : ~IsAsciiDigit(digits[i])
             THEN Err("InvalidDigit")
        ELSE Ok(DecValue(digits))

\* inputs::prompt_usize on the String that prompt returned
prompt_usize(text) ==
    LET inp == filter_numeric(text)
        r == from_str(inp)
    IN  IF r[1] = "Ok" THEN Ok(r[2]) ELSE Err(inp)

\* inputs::read_placement(target) on the String that prompt returned
read_placement(target, text) ==
    LET r == prompt_usize(text)
    IN  IF r[1] = "Ok" THEN valid_plot(target, r[2]) ELSE Err(NotANumberMsg)

(***************************************************************************)
(* The lines the session is given.                                         *)
(***************************************************************************)
\* the decimal digits of n
RECURSIVE ToLine(_)
ToLine(n) ==
    IF n < 10 THEN <<DigitChars[n + 1]>>
    ELSE ToLine(n \div 10) \o <<DigitChars[(n % 10) + 1]>>

\* lines that are not plain numbers: end of input, text, digits among
\* other characters, a sign, a leading zero, CR LF endings, a numeric
\* character that is no ASCII digit, bytes that are not valid UTF-8
OddLines ==
    { <<>>,
      <<"a", "\n">>,
      <<"a", "5", "b", "\r", "\n">>,
      <<"-", "3", "\n">>,
      <<"0", "9", "\r", "\n">>,
      <<"U+00B2", "5", "\n">>,
      <<BadByte, "\n">> }

Lines == { ToLine(n) \o <<"\n">> : n \in 0..MaxNum } \cup OddLines

(***************************************************************************)
(* The Game session.                                                       *)
(***************************************************************************)
\* tutorial(): the texts and the example grid it prints
tutorial ==
    << Text("Welcome to TicTacToe!\n"),
       Text("Take a look at the example grid before we get started."),
       Text("Each number corresponds to a slot you can play on.\n"),
       Printed(Grid_new(<<gen_fn>>)),
       Text("\nWhen prompted, type and enter one of these numbers to make a move!\nGood Luck :)\n\n~~~\n") >>

\* check_end building the message before it looks at the state
check_end_match_eager(g, c, win_state) ==
    IF win_msg(win_state) = Panic
    THEN [count |-> c, ret |-> FALSE, out |-> << Panicked(WinMsgPanic) >>,
          panicked |-> TRUE]
    ELSE [count |-> c, ret |-> TRUE,
          out |-> << Text("~~~\n\nGAME OVER - " \o win_msg(win_state)),
                     Printed(g), Text("\n") >>,
          panicked |-> FALSE]

\* check_end printing the grid before the message
check_end_match_grid_first(g, c, win_state) ==
    IF win_state = StillPlaying
    THEN [count |-> increment_count(c), ret |-> FALSE, out |-> <<>>,
          panicked |-> FALSE]
    ELSE [count |-> c, ret |-> TRUE,
          out |-> << Printed(g),
                     Text("~~~\n\nGAME OVER - " \o win_msg(win_state)),
                     Text("\n") >>,
          panicked |-> FALSE]

\* Game::check_end: the arms of "match self.grid.get_winner(self.count)" on
\* the value win_state: the counter afterwards, the value returned, what is
\* printed and whether win_msg panicked
check_end_match(g, c, win_state) ==
    IF win_state = StillPlaying
    THEN [count |-> increment_count(c), ret |-> FALSE, out |-> <<>>,
          panicked |-> FALSE]
    ELSE IF win_msg(win_state) = Panic
    THEN [count |-> c, ret |-> FALSE, out |-> << Panicked(WinMsgPanic) >>,
          panicked |-> TRUE]
    ELSE [count |-> c, ret |-> TRUE,
          out |-> << Text("~~~\n\nGAME OVER - " \o win_msg(win_state)),
                     Printed(g), Text("\n") >>,
          panicked |-> FALSE]

\* Game::check_end on the grid g and the counter c
check_end(g, c) == check_end_match(g, c, get_winner(g, c))

\* what Game::step prints before it reads
step_head(g, symbol) ==
    << Printed(g), Text("It's " \o symbol \o "'s turn!"),
       Text("Enter cell number: ") >>

\* Game::step after self.grid.plot(num, symbol) returned p = <<grid, old>>
\* and self.check_end() returned e
step_end(g, c, symbol, num, p, e) ==
    [grid |-> p[1], count |-> e.count, ret |-> e.ret,
     out |-> step_head(g, symbol) \o << Text("") >> \o e.out,
     plot |-> <<num, symbol, p[2]>>, panicked |-> e.panicked]

\* Game::step from self.grid.plot(num, symbol) on, p what plot returns
step_plot(g, c, symbol, num, p) ==
    IF p[2] = Panic
    THEN [grid |-> g, count |-> c, ret |-> FALSE,
          out |-> step_head(g, symbol) \o << Text(""), Panicked(IndexPanic) >>,
          plot |-> <<>>, panicked |-> TRUE]
    ELSE step_end(g, c, symbol, num, p, check_end(p[1], c))

\* Game::step: the arms of "match crate::inputs::read_placement(&self.grid)"
\* on the value r
step_match(g, c, symbol, r) ==
    IF r[1] = "Err"
    THEN [grid |-> g, count |-> c, ret |-> FALSE,
          out |-> step_head(g, symbol)
                  \o << Text(""), Text(r[2] \o "\nPlease try again...\n") >>,
          plot |-> <<>>, panicked |-> FALSE]
    ELSE step_plot(g, c, symbol, r[2], plot(g, r[2], symbol))

\* Game::step on the line raw of stdin: the grid and the counter afterwards,
\* the value returned, what is printed, the call of plot made (<<>> when
\* none) and whether the step panicked
step(g, c, raw) ==
    IF read_line(raw)[1] = "Err"
    THEN [grid |-> g, count |-> c, ret |-> FALSE,
          out |-> step_head(g, turn(c)) \o << Panicked(ReadPanic) >>,
          plot |-> <<>>, panicked |-> TRUE]
    ELSE step_match(g, c, turn(c), read_placement(g, prompt(raw)))

AllGrids == [Idx -> [Idx -> Cells]]

TypeOK ==
    /\ grid \in AllGrids
    /\ count \in Nat
    /\ pc \in {"new", "loop", "cleanup", "returned", "panicked"}
    /\ ret \in {<<>>, <<TRUE>>, <<FALSE>>}
    /\ input \in {<<>>} \cup {<<raw>> : raw \in Lines}

Init ==
    /\ grid = Grid_new(<<>>)
    /\ count = 0
    /\ pc = "new"
    /\ ret = <<>>
    /\ input = <<>>
    /\ out = <<>>
    /\ plotted = <<>>
    /\ call = <<>>
    /\ res = <<>>

\* Game::start, up to the loop: main calls it on the new Game, and a caller
\* may call it again once it has returned
Start ==
    /\ pc \in {"new", "returned"}
    /\ pc' = "loop"
    /\ out' = tutorial
    /\ UNCHANGED <<grid, count, ret, input, plotted, call, res>>

\* the loop of Game::start after self.step() gave s on the line raw
loop_body(s, raw) ==
    /\ input' = <<raw>>
    /\ grid' = s.grid
    /\ count' = s.count
    /\ ret' = <<s.ret>>
    /\ out' = s.out
    /\ plotted' = IF s.plot = <<>> THEN plotted ELSE s.plot
    /\ pc' = IF s.panicked THEN "panicked"
             ELSE IF s.ret THEN "cleanup" ELSE "loop"

\* one iteration of the loop of Game::start: self.step() on one line of
\* stdin, and the break when it returns true
Step ==
    /\ pc = "loop"
    /\ \E raw \in Lines : loop_body(step(grid, count, raw), raw)
    /\ UNCHANGED <<call, res>>

\* clean_up that resets the grid and forgets the counter
CleanUp_keeps_count ==
    /\ pc = "cleanup"
    /\ grid' = Grid_new(<<>>)
    /\ pc' = "returned"
    /\ ret' = <<>>
    /\ input' = <<>>
    /\ out' = <<>>
    /\ plotted' = <<>>
    /\ UNCHANGED <<count, call, res>>

\* Game::clean_up, and the return of Game::start
CleanUp ==
    /\ pc = "cleanup"
    /\ grid' = Grid_new(<<>>)
    /\ count' = 0
    /\ pc' = "returned"
    /\ ret' = <<>>
    /\ input' = <<>>
    /\ out' = <<>>
    /\ plotted' = <<>>
    /\ UNCHANGED <<call, res>>

Next == Start \/ Step \/ CleanUp

Spec == Init /\ [][Next]_vars

(***************************************************************************)
(* Single calls of the functions of Grid, on any grid of characters        *)
(* '_', 'X', 'O'.                                                          *)
(***************************************************************************)
InitUnit ==
    /\ grid \in AllGrids
    /\ count = 0
    /\ pc = "unit"
    /\ ret = <<>>
    /\ input = <<>>
    /\ out = <<>>
    /\ plotted = <<>>
    /\ call = <<>>
    /\ res = <<>>

\* self.get_winner(turns)
CallGetWinner ==
    /\ pc = "unit"
    /\ \E turns \in 0..MaxTurnsArg :
         /\ call' = <<"get_winner", turns>>
         /\ res' = get_winner(grid, turns)
    /\ pc' = "unit_done"
    /\ UNCHANGED <<grid, count, ret, input, out, plotted>>

SpecGetWinner == InitUnit /\ [][CallGetWinner]_vars

\* self.valid_plot(num), which takes &self
CallValidPlot ==
    /\ pc = "unit"
    /\ \E num \in 0..MaxPlotArg :
         /\ call' = <<"valid_plot", num>>
         /\ res' = valid_plot(grid, num)
    /\ pc' = "unit_done"
    /\ UNCHANGED <<grid, count, ret, input, out, plotted>>

SpecValidPlot == InitUnit /\ [][CallValidPlot]_vars

\* the call self.plot(plotting, c) that returned p = <<grid, old>>
plot_call(plotting, c, p) ==
    /\ call' = <<"plot", plotting, c>>
    /\ grid' = p[1]
    /\ res' = p[2]
    /\ pc' = IF p[2] = Panic THEN "panicked" ELSE "unit_done"

\* self.plot(plotting, c), which takes &mut self
CallPlot ==
    /\ pc = "unit"
    /\ \E plotting \in 0..MaxPlotArg, c \in {"X", "O"} :
         plot_call(plotting, c, plot(grid, plotting, c))
    /\ UNCHANGED <<count, ret, input, out, plotted>>

SpecPlot == InitUnit /\ [][CallPlot]_vars

(***************************************************************************)
(* Vocabulary of the properties, defined on the grid itself.               *)
(***************************************************************************)
\* the cell of position p, row-major from the top left
CellOf(g, p) == g[(p - 1) \div 3][(p - 1) % 3]

FilledPositions(g) == { p \in 1..9 : CellOf(g, p) # EMPTY }

\* the rows, the columns and the two diagonals, as sets of positions
AllLines ==
    { {1, 2, 3}, {4, 5, 6}, {7, 8, 9}, {1, 4, 7}, {2, 5, 8}, {3, 6, 9},
      {1, 5, 9}, {3, 5, 7} }

LineOf(g, m) == \E l \in AllLines : \A p \in l : CellOf(g, p) = m

HasLine(g) == LineOf(g, "X") \/ LineOf(g, "O")

Full(g) == FilledPositions(g) = 1..9

\* the positions where two grids differ
Changed(g, h) == { p \in 1..9 : CellOf(g, p) # CellOf(h, p) }

\* the line is valid text that holds no ASCII digit
NoDigitLine(raw) ==
    \A i \in 1..Len(raw) : raw[i] # BadByte /\ ~IsAsciiDigit(raw[i])

\* the line is the decimal number n followed by a newline
NumberLine(raw, n) == raw = ToLine(n) \o <<"\n">>

\* the line is a number outside 1..=9
OutOfRangeLine(raw) == \E n \in 0..MaxNum : NumberLine(raw, n) /\ n \notin 1..9

\* the line is the number of a cell of g that is filled
FilledCellLine(raw, g) == \E n \in FilledPositions(g) : NumberLine(raw, n)

\* the texts the last operation printed
Printed_texts == { out[i][2] : i \in { j \in 1..Len(out) : out[j][1] = "text" } }

Announced(msg) == ("~~~\n\nGAME OVER - " \o msg) \in Printed_texts

Reported(msg) == (msg \o "\nPlease try again...\n") \in Printed_texts

(***************************************************************************)
(* C1.  A voided step leaves the session unchanged: a step that reads a    *)
(* line that is not a number, a number outside 1..=9 or the number of a    *)
(* filled cell returns false and leaves the grid and the counter as they   *)
(* were, so that the same player is prompted again.                        *)
(***************************************************************************)
C1_VoidedStepUnchanged ==
    [][ (/\ pc = "loop"
         /\ input' # <<>>
         /\ \/ NoDigitLine(input'[1])
            \/ OutOfRangeLine(input'[1])
            \/ FilledCellLine(input'[1], grid))
        => (/\ ret' = <<FALSE>>
            /\ grid' = grid
            /\ count' = count
            /\ pc' = "loop"
            /\ turn(count') = turn(count)) ]_vars

\* a step was voided for a filled cell in the middle of a round
C1_Witness ==
    /\ pc = "loop"
    /\ count = 3
    /\ input # <<>>
    /\ FilledCellLine(input[1], grid)
    /\ ret = <<FALSE>>
    /\ Reported(SlotFullMsg)

(***************************************************************************)
(* C2.  The session only terminates on a genuine win or tie: whatever the  *)
(* lines read, a step returns true only when it placed a mark that         *)
(* completes a line or fills the ninth cell, and no line read ends the     *)
(* loop otherwise or makes the program panic.                              *)
(***************************************************************************)
C2_EndsOnlyOnWinOrTie ==
    [][ pc = "loop"
        => /\ pc' # "panicked"
           /\ pc' = "cleanup" <=> ret' = <<TRUE>>
           /\ ret' = <<TRUE>>
                => /\ Cardinality(Changed(grid, grid')) = 1
                   /\ HasLine(grid') \/ Full(grid') ]_vars

\* the same statement for the lines that are valid text, which holds
C2_EndsOnlyOnWinOrTie_ValidText ==
    [][ (pc = "loop" /\ \A i \in 1..Len(input'[1]) : input'[1][i] # BadByte)
        => /\ pc' # "panicked"
           /\ pc' = "cleanup" <=> ret' = <<TRUE>>
           /\ ret' = <<TRUE>>
                => /\ Cardinality(Changed(grid, grid')) = 1
                   /\ HasLine(grid') \/ Full(grid') ]_vars

(***************************************************************************)
(* C3.  Turn alternation: the mark a step places is X when count is even   *)
(* and O when it is odd; the first mark of a round is X and every later    *)
(* mark differs from the mark placed before it, however many voided steps  *)
(* lie in between; a voided step does not change whose turn it is.         *)
(***************************************************************************)
C3_TurnAlternation ==
    [][ pc = "loop"
        => IF grid' = grid
           THEN pc' = "loop" => turn(count') = turn(count)
           ELSE \E p \in 1..9 :
                  /\ Changed(grid, grid') = {p}
                  /\ CellOf(grid', p) = (IF count % 2 = 0 THEN "X" ELSE "O")
                  /\ plotted = <<>> => CellOf(grid', p) = "X" /\ count = 0
                  /\ plotted # <<>> => CellOf(grid', p) # plotted[2]
                  /\ plotted' = <<p, CellOf(grid', p), EMPTY>> ]_vars

\* O has placed its second mark after a voided step of O
C3_Witness ==
    /\ pc = "loop"
    /\ count = 4
    /\ plotted # <<>>
    /\ plotted[2] = "O"
    /\ ret = <<FALSE>>
    /\ Cardinality({ p \in 1..9 : CellOf(grid, p) = "O" }) = 2

(***************************************************************************)
(* C4.  Counter/board invariant: while a game is active (and before and    *)
(* after a round) the number of non-empty cells equals count.              *)
(***************************************************************************)
C4_CountIsFilledCells ==
    pc \in {"new", "loop", "returned"}
        => Cardinality(FilledPositions(grid)) = count

\* an active game with eight marks on the board
C4_Witness == pc = "loop" /\ count = 8 /\ Cardinality(FilledPositions(grid)) = 8

(***************************************************************************)
(* C5.  A win is reported in the very step that completes the line, for    *)
(* the mark just placed: a grid with a complete line is only ever seen at  *)
(* the end of the step that placed the last mark of the line; that step    *)
(* returned true and announced "<mark> wins!" for the mark it placed, also *)
(* when it placed the ninth mark.                                          *)
(***************************************************************************)
C5_WinReportedAtOnce ==
    \A m \in {"X", "O"} :
        LineOf(grid, m)
            => /\ pc = "cleanup"
               /\ ret = <<TRUE>>
               /\ plotted # <<>>
               /\ plotted[2] = m
               /\ CellOf(grid, plotted[1]) = m
               /\ \E l \in AllLines :
                     plotted[1] \in l /\ \A p \in l : CellOf(grid, p) = m
               /\ Announced(m \o " wins!")
               /\ ~Announced("The game is a tie!")

\* the ninth mark completed a line
C5_Witness ==
    /\ pc = "cleanup"
    /\ Full(grid)
    /\ LineOf(grid, "X")
    /\ Announced("X wins!")

\* a line was completed with the fifth mark
C5_WitnessEarly ==
    /\ pc = "cleanup"
    /\ count = 4
    /\ LineOf(grid, "X")
    /\ Announced("X wins!")

(***************************************************************************)
(* C6.  A tie is announced exactly when the board is filled with no line   *)
(* completed: a step announces "The game is a tie!" if and only if it      *)
(* started with count = 8, placed the ninth mark and left a full grid      *)
(* without a complete line; never while an empty cell remains.             *)
(***************************************************************************)
C6_TieExactlyOnFullBoard ==
    Announced("The game is a tie!")
        <=> /\ pc = "cleanup"
            /\ count = 8
            /\ Full(grid)
            /\ ~HasLine(grid)

C6_Witness ==
    /\ Announced("The game is a tie!")
    /\ Full(grid)
    /\ ~HasLine(grid)
    /\ ret = <<TRUE>>

(***************************************************************************)
(* C10.  The counter stays within 0..=8; the ninth placement occurs only   *)
(* in a step that starts with count = 8, and that step ends the game (it   *)
(* returns true) and leaves count at 8.                                    *)
(***************************************************************************)
C10_CountWithinCap ==
    [][ /\ count \in 0..8
        /\ count' \in 0..8
        /\ (pc = "loop" /\ grid' # grid /\ Full(grid'))
             => /\ count = 8
                /\ count' = 8
                /\ ret' = <<TRUE>>
                /\ pc' = "cleanup"
        /\ (pc = "loop" /\ pc' = "loop") => ~Full(grid') ]_vars

\* the ninth placement has been made
C10_Witness == pc = "cleanup" /\ Full(grid) /\ count = 8 /\ ret = <<TRUE>>

(***************************************************************************)
(* C7.  get_winner agrees with the reference definition on every grid of   *)
(* {'_', 'X', 'O'} and every turns in 0..MaxTurnsArg: Win(m) for the first *)
(* line, in the order row 0, column 0, row 1, column 1, row 2, column 2,   *)
(* main diagonal, anti-diagonal, that holds three equal marks m; otherwise *)
(* Tie when turns >= 8 and StillPlaying when turns < 8.                    *)
(***************************************************************************)
\* the lines in the order of the scan, as positions
ScanOrder ==
    << <<1, 2, 3>>, <<1, 4, 7>>, <<4, 5, 6>>, <<2, 5, 8>>, <<7, 8, 9>>,
       <<3, 6, 9>>, <<1, 5, 9>>, <<7, 5, 3>> >>

CompleteAt(g, i) ==
    /\ CellOf(g, ScanOrder[i][1]) # EMPTY
    /\ CellOf(g, ScanOrder[i][1]) = CellOf(g, ScanOrder[i][2])
    /\ CellOf(g, ScanOrder[i][2]) = CellOf(g, ScanOrder[i][3])

RefWinner(g, turns) ==
    IF \E i \in 1..8 : CompleteAt(g, i)
    THEN LET first == CHOOSE i \in 1..8 :
                        CompleteAt(g, i) /\ \A j \in 1..(i - 1) : ~CompleteAt(g, j)
         IN  <<"Win", CellOf(g, ScanOrder[first][1])>>
    ELSE IF turns >= 8 THEN <<"Tie">> ELSE <<"StillPlaying">>

C7_GetWinnerAgreesWithReference ==
    (pc = "unit_done" /\ call[1] = "get_winner") => res = RefWinner(grid, call[2])

\* a grid with a line of X and a line of O, where the scan order decides
C7_Witness ==
    /\ pc = "unit_done"
    /\ call[1] = "get_winner"
    /\ LineOf(grid, "X")
    /\ LineOf(grid, "O")
    /\ res = <<"Win", "O">>
    /\ CellOf(grid, 1) = "X"

\* a full grid without a line, and a grid with an empty diagonal
C7_WitnessTie ==
    /\ pc = "unit_done"
    /\ call[1] = "get_winner"
    /\ call[2] = 8
    /\ Full(grid)
    /\ res = <<"Tie">>

(***************************************************************************)
(* C8.  valid_plot(p) on any grid: the out-of-range error for every p      *)
(* outside 1..=9 (0 and 10 included), whatever the grid holds; the         *)
(* slot-full error when p is in 1..=9 and cell p is not empty; otherwise   *)
(* Ok(p) with the same p.                                                  *)
(***************************************************************************)
C8_ValidPlot ==
    (pc = "unit_done" /\ call[1] = "valid_plot")
        => res = (IF call[2] < 1 \/ call[2] > 9
                  THEN <<"Err", "That number is not one of the valid cell numbers.">>
                  ELSE IF CellOf(grid, call[2]) # EMPTY
                  THEN <<"Err", "The slot is full!">>
                  ELSE <<"Ok", call[2]>>)

\* position 10 was refused on a grid that has empty cells
C8_Witness ==
    /\ pc = "unit_done"
    /\ call = <<"valid_plot", 10>>
    /\ res[1] = "Err"
    /\ FilledPositions(grid) = {9}

\* a filled cell was refused
C8_WitnessFull ==
    /\ pc = "unit_done"
    /\ call = <<"valid_plot", 5>>
    /\ CellOf(grid, 5) = "O"
    /\ res = <<"Err", "The slot is full!">>

(***************************************************************************)
(* C9.  plot(p, mark) for p in 1..=9 overwrites cell p with mark whatever  *)
(* it held, returns the value cell p held before the call and leaves the   *)
(* other eight cells unchanged; afterwards at(p) = mark.                   *)
(***************************************************************************)
C9_PlotOverwrites ==
    [][ (pc = "unit" /\ call' # <<>> /\ call'[2] \in 1..9)
        => /\ pc' = "unit_done"
           /\ res' = CellOf(grid, call'[2])
           /\ CellOf(grid', call'[2]) = call'[3]
           /\ \A q \in 1..9 \ {call'[2]} : CellOf(grid', q) = CellOf(grid, q)
           /\ at(grid', call'[2]) = call'[3] ]_vars

\* an O was overwritten by an X
C9_Witness ==
    /\ pc = "unit_done"
    /\ call = <<"plot", 6, "X">>
    /\ res = "O"
    /\ CellOf(grid, 6) = "X"


\* ---------------------------------------------------------------------------
\* Unit specification: one call of grid_mapping_to_indexes, or one call of
\* Grid::plot followed by Grid::at on the same position
\* ---------------------------------------------------------------------------

CallMapping ==
    /\ pc = "unit"
    /\ \E mapping \in 0..MaxPlotArg :
          /\ call' = <<"grid_mapping_to_indexes", mapping>>
          /\ res' = grid_mapping_to_indexes(mapping)
    /\ pc' = "unit_done"
    /\ UNCHANGED <<grid, count, ret, input, out, plotted>>

plot_at_call(plotting, c, p) ==
    /\ call' = <<"plot_at", plotting, c>>
    /\ grid' = p[1]
    /\ res' = IF p[2] = Panic THEN Panic ELSE at(p[1], plotting)
    /\ pc' = IF p[2] = Panic THEN "panicked" ELSE "unit_done"

CallPlotAt ==
    /\ pc = "unit"
    /\ \E plotting \in 0..MaxPlotArg, c \in {"X", "O"} :
          plot_at_call(plotting, c, plot(grid, plotting, c))
    /\ UNCHANGED <<count, ret, input, out, plotted>>

SpecMapping == InitUnit /\ [][CallMapping \/ CallPlotAt]_vars

\* ---------------------------------------------------------------------------
\* C11: whenever start() returns the board is all Empty and count is 0;
\* clean_up runs only on a round that is over (step returned true on a board
\* with a complete line or no empty cell), never on a round in progress; and
\* a start() that follows plays on the empty board with X to move.
\* ---------------------------------------------------------------------------
EmptyGrid == [r \in Idx |-> [c \in Idx |-> EMPTY]]

C11_StartCleansUp ==
    [][ /\ (pc' = "returned" =>
               /\ pc = "cleanup"
               /\ ret = <<TRUE>>
               /\ HasLine(grid) \/ Full(grid)
               /\ grid' = EmptyGrid
               /\ count' = 0)
        /\ (grid # EmptyGrid /\ grid' = EmptyGrid => pc = "cleanup")
        /\ (pc = "returned" /\ pc' # "returned" =>
               /\ pc' = "loop"
               /\ grid' = EmptyGrid
               /\ count' = 0
               /\ turn(count') = "X")
        /\ (pc = "loop" /\ grid = EmptyGrid /\ grid' # EmptyGrid =>
               plotted' # <<>> /\ plotted'[2] = "X")
      ]_vars

\* a round was played to its end and start() has returned
C11_Witness == pc = "returned" /\ grid = EmptyGrid /\ count = 0

C12_WitnessReadBack ==
    call = <<"plot_at", 6, "O">> /\ res = "O" /\ pc = "unit_done"

\* ---------------------------------------------------------------------------
\* C13: win_msg is never called with StillPlaying: no session panics with
\* the message of win_msg.
\* ---------------------------------------------------------------------------
C13_WinMsgNeverPanics ==
    \A i \in 1..Len(out) :
        out[i][1] = "panic" => out[i][2] # WinMsgPanic

\* win_msg was called: a round ended and its message was printed
C13_Witness == pc = "cleanup" /\ Announced("O wins!")

\* a step went through check_end without a message: the game goes on
C13_WitnessStillPlaying ==
    pc = "loop" /\ plotted # <<>> /\ ret = <<FALSE>> /\ count = 3

\* ---------------------------------------------------------------------------
\* C14: on every reachable board all complete lines carry the same mark (no
\* line of X together with a line of O), so whichever complete line a scan
\* finds first, it gives the result get_winner gives.
\* ---------------------------------------------------------------------------
CompleteLines(g) ==
    {l \in AllLines : \E m \in {"X", "O"} : \A p \in l : CellOf(g, p) = m}

MarkOf(g, l) == CellOf(g, CHOOSE p \in l : TRUE)

C14_ScanOrderIrrelevant ==
    /\ ~(LineOf(grid, "X") /\ LineOf(grid, "O"))
    /\ \A l \in CompleteLines(grid) :
           get_winner(grid, count) = Win(MarkOf(grid, l))

\* a board with two complete lines, where the order of the scan could matter
C14_Witness ==
    pc = "cleanup" /\ Cardinality(CompleteLines(grid)) = 2

\* ---------------------------------------------------------------------------
\* C16: the example in the documentation of grid_mapping_to_indexes:
\* 5 gives [2, 2], 1 gives [0, 0], 6 gives [1, 2].
\* ---------------------------------------------------------------------------
C16_DocExample ==
    call # <<>> /\ call[1] = "grid_mapping_to_indexes" =>
        /\ (call[2] = 5 => res = <<2, 2>>)
        /\ (call[2] = 1 => res = <<0, 0>>)
        /\ (call[2] = 6 => res = <<1, 2>>)

\* the two examples the code agrees with
C16_DocExampleOneAndSix ==
    call # <<>> /\ call[1] = "grid_mapping_to_indexes" =>
        /\ (call[2] = 1 => res = <<0, 0>>)
        /\ (call[2] = 6 => res = <<1, 2>>)

\* ---------------------------------------------------------------------------
\* C17 as stated: no reachable board, the final board included, contains two
\* distinct complete lines of three equal marks.
\* ---------------------------------------------------------------------------
C17_AtMostOneLine == Cardinality(CompleteLines(grid)) <= 1

\* C17 amended: a reachable board has at most two complete lines; they carry
\* the mark placed last and all go through the cell placed last, so they
\* were completed by the one placement that ended the round.
C17_LinesThroughLastPlacement ==
    LET L == CompleteLines(grid)
    IN  /\ Cardinality(L) <= 2
        /\ L # {} =>
              /\ pc = "cleanup"
              /\ plotted # <<>>
              /\ \A l \in L : plotted[1] \in l /\ MarkOf(grid, l) = plotted[2]

\* the placement at the centre completed both diagonals
C17_Witness ==
    /\ plotted # <<>>
    /\ plotted[1] = 5
    /\ {{1, 5, 9}, {3, 5, 7}} \subseteq CompleteLines(grid)

\* ---------------------------------------------------------------------------
\* C18 as stated: the step that ends the game first renders the final board,
\* then announces the result, then returns true.
\* ---------------------------------------------------------------------------
IsAnnouncement(e) ==
    /\ e[1] = "text"
    /\ \E w \in {Win("X"), Win("O"), Tie} :
           e[2] = "~~~\n\nGAME OVER - " \o win_msg(w)

IsFinalBoard(e) == e[1] = "grid" /\ e[2] = grid

C18_BoardThenMessage ==
    pc = "cleanup" =>
        /\ ret = <<TRUE>>
        /\ \E i, j \in 1..Len(out) :
               i < j /\ IsFinalBoard(out[i]) /\ IsAnnouncement(out[j])

\* C18 amended: the step that ends the game first announces the result
\* ("GAME OVER - ..."), then renders the final board, then returns true; the
\* final board is not rendered before the announcement.
C18_MessageThenBoard ==
    pc = "cleanup" =>
        /\ ret = <<TRUE>>
        /\ \E i \in 1..(Len(out) - 1) :
               /\ IsAnnouncement(out[i])
               /\ IsFinalBoard(out[i + 1])
               /\ \A j \in 1..(i - 1) :
                      ~IsFinalBoard(out[j]) /\ ~IsAnnouncement(out[j])

\* a round was won and announced
C18_Witness ==
    /\ pc = "cleanup"
    /\ ret = <<TRUE>>
    /\ Announced("X wins!")
    /\ \E i \in 1..Len(out) : IsFinalBoard(out[i])

\* ---------------------------------------------------------------------------
\* Unit specification: one call of inputs::read_placement on a grid whose
\* middle row is arbitrary and on a short line of text
\* ---------------------------------------------------------------------------
MaxLineLen == 2

LineChars == {"a", "-", " ", "+", "0", "5", "9", "U+00B2"}

RECURSIVE TextsUpTo(_)
TextsUpTo(n) ==
    IF n = 0 THEN { <<>> }
    ELSE LET shorter == TextsUpTo(n - 1)
         IN  shorter \cup { t \o <<c>> : t \in shorter, c \in LineChars }

UnitTexts == TextsUpTo(MaxLineLen)

MiddleRowGrids ==
    { [r \in Idx |-> IF r = 1 THEN row ELSE [c \in Idx |-> EMPTY]] :
          row \in [Idx -> Cells] }

InitRead ==
    /\ grid \in MiddleRowGrids
    /\ count = 0
    /\ pc = "unit"
    /\ ret = <<>>
    /\ input = <<>>
    /\ out = <<>>
    /\ plotted = <<>>
    /\ call = <<>>
    /\ res = <<>>

CallReadPlacement ==
    /\ pc = "unit"
    /\ \E text \in UnitTexts :
          /\ call' = <<"read_placement", text>>
          /\ input' = <<text \o <<"\n">>>>
          /\ res' = read_placement(grid, prompt(text \o <<"\n">>))
    /\ pc' = "unit_done"
    /\ UNCHANGED <<grid, count, ret, out, plotted>>

SpecReadPlacement == InitRead /\ [][CallReadPlacement]_vars

\* the ASCII digits of a line, in order
AsciiDigits(text) == SelectSeq(text, IsAsciiDigit)

\* ---------------------------------------------------------------------------
\* C19: read_placement drops every non-digit character before parsing: a
\* line whose digit characters spell n has the outcome valid_plot(n), and a
\* line without a digit fails with "not a number".
\* ---------------------------------------------------------------------------
C19_PermissiveParsing ==
    call # <<>> =>
        IF AsciiDigits(call[2]) = <<>>
        THEN res = Err(NotANumberMsg)
        ELSE res = valid_plot(grid, DecValue(AsciiDigits(call[2])))

\* the same for the lines without a numeric character that is no ASCII digit
C19_PermissiveParsing_AsciiDigitsOnly ==
    call # <<>> /\ (\A i \in 1..Len(call[2]) : call[2][i] # "U+00B2") =>
        IF AsciiDigits(call[2]) = <<>>
        THEN res = Err(NotANumberMsg)
        ELSE res = valid_plot(grid, DecValue(AsciiDigits(call[2])))

\* ---------------------------------------------------------------------------
\* C20: marks are never overwritten during a round: plot is called only with
\* a position in 1..=9 whose cell is Empty and returns Empty, a cell that
\* holds X or O keeps it until clean_up, and no step panics on an index
\* (grid_mapping_to_indexes is not evaluated at 0).
\* ---------------------------------------------------------------------------
C20_MarksNeverOverwritten ==
    [][ pc = "loop" =>
          /\ (grid' # grid =>
                 /\ plotted' # <<>>
                 /\ plotted'[1] \in 1..9
                 /\ CellOf(grid, plotted'[1]) = EMPTY
                 /\ plotted'[3] = EMPTY
                 /\ CellOf(grid', plotted'[1]) = plotted'[2])
          /\ \A p \in 1..9 :
                 CellOf(grid, p) # EMPTY => CellOf(grid', p) = CellOf(grid, p)
          /\ \A i \in 1..Len(out') :
                 out'[i][1] = "panic" => out'[i][2] # IndexPanic
      ]_vars

\* the number of a filled cell was entered late in a round and refused
C20_Witness ==
    /\ pc = "loop"
    /\ count = 6
    /\ input # <<>>
    /\ FilledCellLine(input[1], grid)
    /\ plotted # <<>>
    /\ plotted[3] = EMPTY
    /\ Reported(SlotFullMsg)

\* ---------------------------------------------------------------------------
\* The session under fairness: the process keeps running (clean_up follows
\* the break of the loop), and a valid move is entered whenever a round stays
\* in progress.
\* ---------------------------------------------------------------------------
\* Game::step on the number n of an empty cell, written out step by step:
\* the mark is plotted, check_end decides on the new grid
ValidMove ==
    /\ pc = "loop"
    /\ \E n \in 1..9 :
          /\ valid_plot(grid, n) = Ok(n)
          /\ input' = <<ToLine(n) \o <<"\n">>>>
          /\ grid' = plot(grid, n, turn(count))[1]
          /\ plotted' = <<n, turn(count), plot(grid, n, turn(count))[2]>>
          /\ ret' = <<check_end(grid', count).ret>>
          /\ count' = check_end(grid', count).count
          /\ out' = step_head(grid, turn(count)) \o << Text("") >>
                        \o check_end(grid', count).out
          /\ pc' = IF ret'[1] THEN "cleanup" ELSE "loop"
    /\ UNCHANGED <<call, res>>

SpecLive == Init /\ [][Next]_vars /\ WF_vars(CleanUp) /\ WF_vars(ValidMove)

\* ValidMove is the step of the session on the number of an empty cell
ValidMoveIsStep ==
    [][ /\ (ValidMove => pc = "loop" /\ Cardinality(Changed(grid, grid')) = 1)
        /\ (pc = "loop" /\ grid' # grid
               /\ (\E n \in 1..9 : NumberLine(input'[1], n)) => ValidMove)
      ]_vars

\* ---------------------------------------------------------------------------
\* C15: every round terminates: when a valid move is eventually entered
\* whenever a round is in progress, start() eventually reaches game over and
\* returns.
\* ---------------------------------------------------------------------------
C15_RoundTerminates == (pc = "loop") ~> (pc = "returned")

\* what holds instead: the round ends with the return of start() or with
\* the panic of the process
C15_RoundTerminatesOrPanics ==
    (pc = "loop") ~> (pc = "returned" \/ pc = "panicked")

====
